---- MODULE Spec2Model ----
(***************************************************************************)
(* Model of the onomatoparty2 game server (src/index.js).                  *)
(*                                                                         *)
(* The server keeps one process-wide table `rooms` from room id to a room  *)
(* object and reacts to socket.io events.  Every handler runs to its end   *)
(* on the single event-loop thread; the one exception is the callback      *)
(* chained with .finally() on the Firestore write of chooseOnomatopoeia,   *)
(* which runs as a later step of its own once the write has settled.       *)
(*                                                                         *)
(* Room objects live in `heap`, because that callback keeps a reference to *)
(* the room object it was created for (`room`) next to the room id         *)
(* (`roomId`), and the two can come apart when the room is deleted (and    *)
(* possibly created again) before the write settles.                       *)
(***************************************************************************)
EXTENDS Integers, Sequences, FiniteSets, TLC

\* ------------------------------------------------------------------ inputs
Sockets   == {"s1", "s2", "s3"}        \* socket.id of the connections
RoomIds   == {"r1", "r2"}              \* roomId payloads
Names     == {"a", "b", "c"}           \* playerName payloads
Texts     == {"x", "y"}                \* onomatopoeia payloads
DeckNames == {"three", "two", "one", "none", "missing"} \* deckName payloads

\* bound of the model (not a program constant): the number of inbound
\* events the server handles in one behaviour
MaxEvents == 4

\* The clients and the payloads of one specification: which sockets connect,
\* which room ids, names, texts and deck names they send, and how many
\* events they send.
Scope(sockets, roomIds, names, texts, decks, events) ==
    [sockets |-> sockets, rooms |-> roomIds, names |-> names,
     texts |-> texts, decks |-> decks, events |-> events]

\* two clients and one room id, with every kind of deck
OneRoom == Scope({"s1", "s2"}, {"r1"}, {"a", "b"}, {"x", "y"},
                 {"two", "none", "missing"}, MaxEvents)

\* one client and one room id, with one text and the deck folders of every
\* size: three, two, one and no card
ManyDecks == Scope({"s1"}, {"r1"}, {"a", "b"}, {"x"},
                   {"three", "two", "one", "none", "missing"}, MaxEvents)

\* two clients playing one game with the deck of two cards for one event
\* more: long enough for a client to leave a started game and for the
\* other one to go on playing
LongGame == Scope({"s1", "s2"}, {"r1"}, {"a", "b"}, {"x"}, {"two"}, MaxEvents + 1)

\* JavaScript's NaN, the value of x % 0 (src/index.js:246)
NaN == -1

NoObj == [free |-> TRUE]
ObjIds == 1..(Cardinality(RoomIds) + MaxEvents + 1)

VARIABLES
    scope,     \* the clients and payloads of this behaviour, never changed
    conn,      \* socket -> "open" | "closed"
    rooms,     \* the table `rooms`: room id -> object id, 0 when absent
    keys,      \* the room ids of the table in the order of their insertion
    heap,      \* object id -> room object, NoObj when unused
    pending,   \* .finally callbacks of choice writes not yet run
    out,       \* events emitted by the last step, in order
    crashed,   \* an uncaught TypeError has ended the process
    handled    \* number of inbound events handled so far

vars == <<scope, conn, rooms, keys, heap, pending, out, crashed, handled>>

\* ------------------------------------------------------------------ helpers
SeqToSet(s) == {s[i] : i \in 1..Len(s)}

RemoveAt(s, i) == SubSeq(s, 1, i - 1) \o SubSeq(s, i + 1, Len(s))

RECURSIVE Filter(_, _)
\* Array.prototype.filter with the predicate "is a member of keep"
Filter(s, keep) ==
    IF s = <<>> THEN <<>>
    ELSE IF Head(s) \in keep THEN <<Head(s)>> \o Filter(Tail(s), keep)
         ELSE Filter(Tail(s), keep)

RECURSIVE SumLen(_)
\* reduce((sum, g) => sum + g.playerIds.length, 0)
SumLen(list) ==
    IF list = <<>> THEN 0 ELSE Len(Head(list).playerIds) + SumLen(Tail(list))

\* the room ids of the table R
Keys(R) == {r \in RoomIds : R[r] # 0}

Exists(r) == rooms[r] # 0

\* rooms[roomId], for an existing room
Room(r) == heap[rooms[r]]

\* the event emitted to a socket, a room or everybody
Ev(type, to, data) == [type |-> type, to |-> to, data |-> data]

\* JavaScript's undefined, where a player object is expected
Undefined == [undefined |-> TRUE]

\* room.players[i] for a zero-based i; undefined outside the array
PlayerAt(room, i) ==
    IF i \in 0..(Len(room.players) - 1) THEN room.players[i + 1] ELSE Undefined

ValidIndex(room) ==
    room.currentTurnPlayerIndex \in 0..(Len(room.players) - 1)

\* onomatopoeiaList.find(g => g.onomatopoeia === text): the one-based index
\* of the first group with the text, 0 when there is none
FindGroup(list, text) ==
    IF \E i \in 1..Len(list) : list[i].onomatopoeia = text
    THEN CHOOSE i \in 1..Len(list) :
            /\ list[i].onomatopoeia = text
            /\ \A k \in 1..(i - 1) : list[k].onomatopoeia # text
    ELSE 0

\* players.find(p => p.id === id): the one-based index of the first player
\* with the id, 0 when there is none
FindPlayer(players, id) ==
    IF \E i \in 1..Len(players) : players[i].id = id
    THEN CHOOSE i \in 1..Len(players) :
            /\ players[i].id = id
            /\ \A k \in 1..(i - 1) : players[k].id # id
    ELSE 0

\* object ids referenced from the table or from a pending callback
Live(R, P) == {R[r] : r \in Keys(R)} \cup {P[i].obj : i \in 1..Len(P)}

\* the garbage collector: unreferenced room objects vanish
Collect(H, R, P) == [o \in ObjIds |-> IF o \in Live(R, P) THEN H[o] ELSE NoObj]

FreshObj == CHOOSE o \in ObjIds :
                /\ o \notin Live(rooms, pending)
                /\ \A k \in ObjIds : k < o => k \in Live(rooms, pending)

\* Object.keys(rooms) for the table R that the running handler has made of
\* `rooms`: string keys come in insertion order, a new one last
KeyList(R) ==
    LET new == Keys(R) \ SeqToSet(keys)
    IN Filter(keys, Keys(R))
       \o (IF new = {} THEN <<>> ELSE <<CHOOSE r \in new : TRUE>>)

\* the step's new table, heap, callbacks and emitted events
Commit(R, H, P, O) ==
    /\ rooms' = R
    /\ keys' = KeyList(R)
    /\ pending' = P
    /\ heap' = Collect(H, R, P)
    /\ out' = O

\* ------------------------------------------------------------------ deck
\* fs.readdirSync(deckFolder): the directory listing of a deck folder
DirListing(deckName) ==
    CASE deckName = "three" -> <<"c1.png", "c2.JPG", "notes.txt", "c3.gif">>
      [] deckName = "two"   -> <<"c1.png", "notes.txt", "c2.JPG">>
      [] deckName = "one"   -> <<"notes.txt", "c1.png">>
      [] deckName = "none"  -> <<"notes.txt">>

DirReadable(deckName) == deckName \in {"three", "two", "one", "none"}

\* /\.(jpg|jpeg|png|gif)$/i.test(file)
IsImage(file) == file \in {"c1.png", "c2.JPG", "c3.gif"}

\* a swap that forgets to store the card it overwrites
HalfSwap(s, i, j) == [s EXCEPT ![i] = s[j]]

\* [deck[i], deck[j]] = [deck[j], deck[i]]
Swap(s, i, j) == [s EXCEPT ![i] = s[j], ![j] = s[i]]

RECURSIVE FisherYates(_, _)
\* every outcome of the loop "for (i = length-1; i > 0; i--)" from the
\* one-based position i downwards, j drawn from the first i positions
FisherYates(cards, i) ==
    IF i <= 1 THEN {cards}
    ELSE UNION {FisherYates(Swap(cards, i, j), i - 1) : j \in 1..i}

Shuffle(cards) == FisherYates(cards, Len(cards))

\* the server, still running, takes one more inbound event
Receive ==
    /\ ~crashed
    /\ UNCHANGED scope
    /\ handled < scope.events
    /\ handled' = handled + 1

\* the handlers of a socket exist while it is connected
Connected(s) == conn[s] = "open"

\* ------------------------------------------------------------------ init
\* The server after start-up, with the clients connected (io.on('connection')
\* only registers the handlers below; a socket that has sent nothing yet
\* has left no trace in the server's state).
InitIn(sc) ==
    /\ scope = sc
    /\ conn = [s \in Sockets |-> IF s \in sc.sockets THEN "open" ELSE "closed"]
    /\ rooms = [r \in RoomIds |-> 0]
    /\ keys = <<>>
    /\ heap = [o \in ObjIds |-> NoObj]
    /\ pending = <<>>
    /\ out = <<>>
    /\ crashed = FALSE
    /\ handled = 0

Init == InitIn(OneRoom)

\* createRoom without its check of the room id
RoomIdFree(r) == FALSE

\* "if (rooms[roomId])" of createRoom
RoomIdTaken(r) == Exists(r)

\* socket.on('createRoom')
CreateRoom(s, r, n, d) ==
    /\ Receive
    /\ Connected(s)
    /\ UNCHANGED <<conn, crashed>>
    /\ IF RoomIdTaken(r)
       THEN Commit(rooms, heap, pending, <<Ev("error", s, "Room already exists")>>)
       ELSE IF ~DirReadable(d)
       THEN Commit(rooms, heap, pending,
                   <<Ev("error", s, "Failed to load deck images")>>)
       ELSE \E deck \in Shuffle(Filter(DirListing(d),
                                        {f \in SeqToSet(DirListing(d)) : IsImage(f)})) :
              LET o == FreshObj
                  room == [players |-> <<[id |-> s, name |-> n, points |-> 0]>>,
                           deck |-> deck,
                           currentTurnPlayerIndex |-> 0,
                           onomatopoeiaList |-> <<>>,
                           deckName |-> d,
                           currentCard |-> "null",
                           roundCount |-> 1,
                           stats |-> [p \in Sockets |-> [t \in Texts |-> 0]]]
                  R == [rooms EXCEPT ![r] = o]
              IN Commit(R, [heap EXCEPT ![o] = room], pending,
                        <<Ev("roomsList", "all", KeyList(R)),
                          Ev("updatePlayers", r, room.players)>>)

\* joinRoom without its check of the name
NameFree(players, n) == FALSE

\* players.some(p => p.name === playerName)
NameTaken(players, n) == \E i \in 1..Len(players) : players[i].name = n

\* socket.on('joinRoom')
JoinRoom(s, r, n) ==
    /\ Receive
    /\ Connected(s)
    /\ UNCHANGED <<conn, crashed>>
    /\ IF ~Exists(r)
       THEN Commit(rooms, heap, pending, <<Ev("error", s, "Room does not exist")>>)
       ELSE IF NameTaken(Room(r).players, n)
       THEN Commit(rooms, heap, pending,
                   <<Ev("error", s, "Name already taken in this room")>>)
       ELSE LET players == Append(Room(r).players, [id |-> s, name |-> n, points |-> 0])
            IN Commit(rooms, [heap EXCEPT ![rooms[r]].players = players], pending,
                      <<Ev("updatePlayers", r, players)>>)

\* socket.on('startGame'); k is Math.floor(Math.random() * room.players.length)
StartGame(s, r, k) ==
    /\ Receive
    /\ Connected(s)
    /\ UNCHANGED <<conn, crashed>>
    /\ IF ~Exists(r)
       THEN Commit(rooms, heap, pending, <<>>)
       ELSE /\ k \in 0..(Len(Room(r).players) - 1)
            /\ LET room == [Room(r) EXCEPT !.currentTurnPlayerIndex = k]
               IN Commit(rooms, [heap EXCEPT ![rooms[r]] = room], pending,
                         <<Ev("updateRoomInfo", r, room.deckName),
                           Ev("gameStarted", r, PlayerAt(room, k))>>)

\* Math.max(...finalPlayers.map(p => p.points))
MaxOfPoints(players) ==
    CHOOSE m \in {players[i].points : i \in 1..Len(players)} :
        \A i \in 1..Len(players) : players[i].points <= m

\* endGame naming one winner only: the first player with the most points
FirstWinner(players) ==
    <<players[CHOOSE i \in 1..Len(players) :
                /\ players[i].points = MaxOfPoints(players)
                /\ \A j \in 1..(i - 1) : players[j].points # MaxOfPoints(players)]>>

\* finalPlayers.filter(p => p.points === maxPoints)
Winners(players) ==
    Filter(players, {p \in SeqToSet(players) : p.points = MaxOfPoints(players)})

\* endGame(roomId) on the table R and heap H: the events it emits
EndGameOut(r, R, H) ==
    IF R[r] = 0 THEN <<>>
    ELSE <<Ev("gameOver", r, [winners |-> Winners(H[R[r]].players),
                              players |-> H[R[r]].players])>>

\* endGame(roomId): the table it leaves
EndGameRooms(r, R) == [R EXCEPT ![r] = 0]

\* socket.on('drawCard')
DrawCard(s, r) ==
    /\ Receive
    /\ Connected(s)
    /\ UNCHANGED conn
    /\ IF ~Exists(r)
       THEN Commit(rooms, heap, pending, <<>>) /\ UNCHANGED crashed
       ELSE IF ~ValidIndex(Room(r))
       THEN \* currentPlayer is undefined: currentPlayer.id throws
            Commit(rooms, heap, pending, <<>>) /\ crashed' = TRUE
       ELSE IF s # PlayerAt(Room(r), Room(r).currentTurnPlayerIndex).id
       THEN Commit(rooms, heap, pending, <<>>) /\ UNCHANGED crashed
       ELSE IF Len(Room(r).deck) = 0
       THEN Commit(EndGameRooms(r, rooms), heap, pending, EndGameOut(r, rooms, heap))
            /\ UNCHANGED crashed
       ELSE LET deck == Room(r).deck
                card == deck[Len(deck)]
                room == [Room(r) EXCEPT !.deck = SubSeq(deck, 1, Len(deck) - 1),
                                        !.currentCard = card]
            IN Commit(rooms, [heap EXCEPT ![rooms[r]] = room], pending,
                      <<Ev("cardDrawn", r, card)>>)
               /\ UNCHANGED crashed

\* the grouping without its "includes" check: the id is pushed every time
PushSubmission(list, s, t) ==
    LET g == FindGroup(list, t)
    IN IF g = 0 THEN Append(list, [onomatopoeia |-> t, playerIds |-> <<s>>])
       ELSE [list EXCEPT ![g].playerIds = Append(@, s)]

\* the grouping of submitOnomatopoeia (find / includes / push)
AddSubmission(list, s, t) ==
    LET g == FindGroup(list, t)
    IN IF g = 0 THEN Append(list, [onomatopoeia |-> t, playerIds |-> <<s>>])
       ELSE IF s \in SeqToSet(list[g].playerIds) THEN list
       ELSE [list EXCEPT ![g].playerIds = Append(@, s)]

\* "totalSubmissions === expectedCount"
AllSubmitted(room) == SumLen(room.onomatopoeiaList) = Len(room.players) - 1

\* socket.on('submitOnomatopoeia').  The Firestore write of the answer is
\* dispatched and only logged by its then/catch, so it leaves no state.
SubmitOnomatopoeia(s, r, t) ==
    /\ Receive
    /\ Connected(s)
    /\ UNCHANGED conn
    /\ IF ~Exists(r)
       THEN Commit(rooms, heap, pending, <<>>) /\ UNCHANGED crashed
       ELSE LET room == [Room(r) EXCEPT
                              !.stats[s][t] = @ + 1,
                              !.onomatopoeiaList = AddSubmission(@, s, t)]
                H == [heap EXCEPT ![rooms[r]] = room]
                parent == PlayerAt(room, room.currentTurnPlayerIndex)
            IN IF ~AllSubmitted(room)
               THEN Commit(rooms, H, pending, <<>>) /\ UNCHANGED crashed
               ELSE IF parent = Undefined
               THEN \* parentPlayer.id throws
                    Commit(rooms, H, pending, <<>>) /\ crashed' = TRUE
               ELSE IF Connected(parent.id)
               THEN Commit(rooms, H, pending,
                           <<Ev("onomatopoeiaList", parent.id, room.onomatopoeiaList)>>)
                    /\ UNCHANGED crashed
               ELSE Commit(rooms, H, pending, <<>>) /\ UNCHANGED crashed

RECURSIVE AwardPoints(_, _)
\* group.playerIds.forEach: the first player with the id gains a point
AwardPoints(players, ids) ==
    IF ids = <<>> THEN players
    ELSE LET i == FindPlayer(players, Head(ids))
         IN AwardPoints(IF i = 0 THEN players
                        ELSE [players EXCEPT ![i].points = @ + 1], Tail(ids))

RECURSIVE ChosenNames(_, _)
\* the names pushed to chosenNames, in the order of group.playerIds
ChosenNames(players, ids) ==
    IF ids = <<>> THEN <<>>
    ELSE LET i == FindPlayer(players, Head(ids))
         IN (IF i = 0 THEN <<>> ELSE <<players[i].name>>)
            \o ChosenNames(players, Tail(ids))

\* db.collection("answers").add(choiceData) returns a promise that settles
\* (resolved or rejected) at some later time, or never does
Outcomes == {"settles", "hangs"}

\* socket.on('chooseOnomatopoeia'), up to the dispatch of the Firestore write
ChooseOnomatopoeia(s, r, t, w) ==
    /\ Receive
    /\ Connected(s)
    /\ UNCHANGED conn
    /\ IF ~Exists(r)
       THEN Commit(rooms, heap, pending, <<>>) /\ UNCHANGED crashed
       ELSE LET g == FindGroup(Room(r).onomatopoeiaList, t)
                ids == IF g = 0 THEN <<>> ELSE Room(r).onomatopoeiaList[g].playerIds
                room == [Room(r) EXCEPT !.players = AwardPoints(@, ids)]
                H == [heap EXCEPT ![rooms[r]] = room]
                parent == PlayerAt(room, room.currentTurnPlayerIndex)
            IN IF parent = Undefined
               THEN \* parentPlayer.id throws after the points were added
                    Commit(rooms, H, pending, <<>>) /\ crashed' = TRUE
               ELSE \* the closure of the callback: roomId, room, chosenNames,
                    \* and the round and parent recorded in choiceData
                    Commit(rooms, H,
                           Append(pending,
                                  [roomId |-> r, obj |-> rooms[r],
                                   chosenNames |-> ChosenNames(Room(r).players, ids),
                                   round |-> room.roundCount,
                                   parentIndex |-> room.currentTurnPlayerIndex,
                                   outcome |-> w]),
                           <<>>)
                    /\ UNCHANGED crashed

\* (currentTurnPlayerIndex + 1) % players.length
NextIndex(i, len) == IF i = NaN \/ len = 0 THEN NaN ELSE (i + 1) % len

\* the .finally callback of the i-th pending choice write
ChooseFinally(i) ==
    /\ ~crashed
    /\ i \in 1..Len(pending)
    /\ pending[i].outcome = "settles"
    /\ UNCHANGED <<scope, conn, crashed, handled>>
    /\ LET c == pending[i]
           P == RemoveAt(pending, i)
           cleared == [heap[c.obj] EXCEPT !.onomatopoeiaList = <<>>]
           chosen == Ev("onomatopoeiaChosen", c.roomId,
                        [chosenPlayers |-> c.chosenNames,
                         updatedPlayers |-> cleared.players])
       IN IF Len(cleared.deck) = 0
          THEN LET H == [heap EXCEPT ![c.obj] = cleared]
               IN Commit(EndGameRooms(c.roomId, rooms), H, P,
                         <<chosen>> \o EndGameOut(c.roomId, rooms, H))
          ELSE LET k == NextIndex(cleared.currentTurnPlayerIndex, Len(cleared.players))
                   room == [cleared EXCEPT !.currentTurnPlayerIndex = k,
                                           !.roundCount = @ + 1]
               IN Commit(rooms, [heap EXCEPT ![c.obj] = room], P,
                         <<chosen, Ev("newTurn", c.roomId, PlayerAt(room, k))>>)

\* socket.on('nextTurn')
NextTurn(s, r) ==
    /\ Receive
    /\ Connected(s)
    /\ UNCHANGED <<conn, crashed>>
    /\ IF ~Exists(r)
       THEN Commit(rooms, heap, pending, <<>>)
       ELSE LET k == NextIndex(Room(r).currentTurnPlayerIndex, Len(Room(r).players))
                room == [Room(r) EXCEPT !.onomatopoeiaList = <<>>,
                                        !.currentTurnPlayerIndex = k,
                                        !.roundCount = @ + 1]
            IN Commit(rooms, [heap EXCEPT ![rooms[r]] = room], pending,
                      <<Ev("newTurn", r, PlayerAt(room, k))>>)

\* socket.on('getRooms')
GetRooms(s) ==
    /\ Receive
    /\ Connected(s)
    /\ UNCHANGED <<conn, crashed>>
    /\ Commit(rooms, heap, pending, <<Ev("roomsList", s, keys)>>)

\* disconnect without the deletion of an emptied room
NeverEmpty(players) == FALSE

\* "players.length === 0" of the disconnect handler
NobodyLeft(players) == Len(players) = 0

RECURSIVE DisconnectLoop(_, _, _, _, _)
\* the forEach of the disconnect handler over the room ids in todo:
\* the table, the heap and the events after the loop
DisconnectLoop(s, todo, R, H, O) ==
    IF todo = <<>> THEN [rooms |-> R, heap |-> H, out |-> O]
    ELSE LET r == Head(todo)
         IN IF R[r] = 0 THEN DisconnectLoop(s, Tail(todo), R, H, O)
            ELSE LET players == Filter(H[R[r]].players,
                                       {p \in SeqToSet(H[R[r]].players) : p.id # s})
                     H1 == [H EXCEPT ![R[r]].players = players]
                 IN IF NobodyLeft(players)
                    THEN LET R1 == [R EXCEPT ![r] = 0]
                         IN DisconnectLoop(s, Tail(todo), R1, H1,
                                           Append(O, Ev("roomsList", "all", KeyList(R1))))
                    ELSE DisconnectLoop(s, Tail(todo), R, H1,
                                        Append(O, Ev("updatePlayers", r, players)))

\* socket.on('disconnect')
Disconnect(s) ==
    /\ Receive
    /\ Connected(s)
    /\ conn' = [conn EXCEPT ![s] = "closed"]
    /\ UNCHANGED crashed
    /\ LET res == DisconnectLoop(s, keys, rooms, heap, <<>>)
       IN Commit(res.rooms, res.heap, pending, res.out)

Next ==
    \/ \E s \in scope.sockets, r \in scope.rooms, n \in scope.names, d \in scope.decks :
          CreateRoom(s, r, n, d)
    \/ \E s \in scope.sockets, r \in scope.rooms, n \in scope.names : JoinRoom(s, r, n)
    \/ \E s \in scope.sockets, r \in scope.rooms, k \in 0..MaxEvents : StartGame(s, r, k)
    \/ \E s \in scope.sockets, r \in scope.rooms : DrawCard(s, r)
    \/ \E s \in scope.sockets, r \in scope.rooms, t \in scope.texts :
          SubmitOnomatopoeia(s, r, t)
    \/ \E s \in scope.sockets, r \in scope.rooms, t \in scope.texts, w \in Outcomes :
          ChooseOnomatopoeia(s, r, t, w)
    \/ \E i \in 1..MaxEvents : ChooseFinally(i)
    \/ \E s \in scope.sockets, r \in scope.rooms : NextTurn(s, r)
    \/ \E s \in scope.sockets : GetRooms(s)
    \/ \E s \in scope.sockets : Disconnect(s)

Spec == Init /\ [][Next]_vars

\* Every pending callback whose write settles is eventually run: node runs
\* the reactions of a settled promise as soon as the running handler returns.
FairSpec == Spec /\ WF_vars(\E i \in 1..MaxEvents : ChooseFinally(i))

\* the same server with the clients of ManyDecks
InitManyDecks == InitIn(ManyDecks)

ManyDecksSpec == InitManyDecks /\ [][Next]_vars

\* the same server with the clients of LongGame
InitLongGame == InitIn(LongGame)

LongGameSpec == InitLongGame /\ [][Next]_vars

\* ------------------------------------------------------------------ claims
HasEvent(o, type, to) == \E i \in 1..Len(o) : o[i].type = type /\ o[i].to = to

\* the current parent of a room with a valid index
Parent(room) == PlayerAt(room, room.currentTurnPlayerIndex)

PlayerIds(room) == {room.players[i].id : i \in 1..Len(room.players)}

\* ids found in the submission groups of the room
Submitters(room) ==
    UNION {SeqToSet(room.onomatopoeiaList[i].playerIds) :
             i \in 1..Len(room.onomatopoeiaList)}

\* the distinct non-parent players of the room that have submitted this round
ChildSubmitters(room) == (Submitters(room) \cap PlayerIds(room)) \ {Parent(room).id}

\* C1: in a round the parent is sent onomatopoeiaList exactly at the
\* submission by which the number of distinct non-parent players that have
\* submitted first reaches P-1, and at no other submission.  Stated for the
\* submissions of non-parent players of a room whose parent is connected and
\* has not submitted anything itself.
C1_ListSentOnceWhenComplete ==
    [][\A s \in scope.sockets, r \in scope.rooms, t \in scope.texts :
         (/\ SubmitOnomatopoeia(s, r, t)
          /\ Exists(r)
          /\ ValidIndex(Room(r))
          /\ Connected(Parent(Room(r)).id)
          /\ Parent(Room(r)).id \notin Submitters(Room(r))
          /\ s \in PlayerIds(Room(r)) \ {Parent(Room(r)).id})
         => (HasEvent(out', "onomatopoeiaList", Parent(Room(r)).id)
             <=> (/\ Cardinality(ChildSubmitters(heap'[rooms'[r]]))
                        = Len(Room(r).players) - 1
                  /\ Cardinality(ChildSubmitters(Room(r)))
                        < Len(Room(r).players) - 1))]_vars

\* C2: a chooseOnomatopoeia on an existing room gives +1 point to every
\* player whose id is in the submitter list of the group with the chosen
\* text and leaves all other points alone (no group: no change).
C2_ChosenGroupScores ==
    [][\A s \in scope.sockets, r \in scope.rooms, t \in scope.texts, w \in Outcomes :
         (ChooseOnomatopoeia(s, r, t, w) /\ Exists(r))
         => LET old == Room(r).players
                new == heap'[rooms'[r]].players
                g == FindGroup(Room(r).onomatopoeiaList, t)
                ids == IF g = 0 THEN {}
                       ELSE SeqToSet(Room(r).onomatopoeiaList[g].playerIds)
            IN /\ Len(new) = Len(old)
               /\ \A i \in 1..Len(old) :
                    new[i].points =
                       old[i].points + (IF old[i].id \in ids THEN 1 ELSE 0)]_vars

\* C3: after a chooseOnomatopoeia on a room with a non-empty deck, the index
\* is the index at the event plus one modulo players.length, roundCount is
\* the roundCount at the event plus one, and the submission list is empty.
\* Stated where the code makes these changes, for a room still registered.
C3_ChoiceAdvancesTurn ==
    [][\A i \in 1..MaxEvents :
         (/\ ChooseFinally(i)
          /\ rooms[pending[i].roomId] = pending[i].obj
          /\ Len(heap[pending[i].obj].deck) > 0)
         => LET c == pending[i]
                room == heap'[rooms'[c.roomId]]
            IN /\ rooms'[c.roomId] = c.obj
               /\ room.currentTurnPlayerIndex
                     = (c.parentIndex + 1) % Len(room.players)
               /\ room.roundCount = c.round + 1
               /\ room.onomatopoeiaList = <<>>]_vars

\* C4: a drawCard of the current parent on an empty deck, and a
\* chooseOnomatopoeia processed on a room with an empty deck, end the game:
\* gameOver goes to the room and the room leaves the table, with the turn
\* not advanced and no card revealed.
C4_EmptyDeckEndsGame ==
    [][/\ \A s \in scope.sockets, r \in scope.rooms :
            (/\ DrawCard(s, r)
             /\ Exists(r)
             /\ ValidIndex(Room(r))
             /\ Parent(Room(r)).id = s
             /\ Len(Room(r).deck) = 0)
            => (/\ rooms'[r] = 0
                /\ HasEvent(out', "gameOver", r)
                /\ ~HasEvent(out', "cardDrawn", r)
                /\ ~HasEvent(out', "newTurn", r))
       /\ \A s \in scope.sockets, r \in scope.rooms, t \in scope.texts, w \in Outcomes :
            (/\ ChooseOnomatopoeia(s, r, t, w)
             /\ Exists(r)
             /\ ValidIndex(Room(r))
             /\ Len(Room(r).deck) = 0)
            => (/\ rooms'[r] = 0
                /\ HasEvent(out', "gameOver", r)
                /\ ~HasEvent(out', "newTurn", r))]_vars

\* C5: every room of the table has 0 <= currentTurnPlayerIndex <
\* players.length.
C5_IndexValid == \A r \in Keys(rooms) : ValidIndex(Room(r))

\* C6: the changes of a chooseOnomatopoeia (points, clearing of the list,
\* turn advance or game end) are complete before another inbound event is
\* handled: no event is handled while a choice awaits its callback.
C6_ChoiceAtomic == [][pending # <<>> => handled' = handled]_vars

\* C7: the outcome of a choice does not depend on the audit write: whether
\* the write resolves, is rejected or never completes, the choice is
\* completed (onomatopoeiaChosen sent, list cleared, game ended or turn
\* advanced), so no choice stays incomplete for ever.
C7_ChoiceCompletesWhateverTheWrite == (pending # <<>>) ~> (pending = <<>>)

\* C8: createRoom with a room id that is in the table sends an error to the
\* sender and leaves the table and every room as they are; a createRoom with
\* a free id and a readable deck folder puts the id into the table, so of two
\* such events in a row the first one succeeds and the second one fails.
C8_CreateRoomExclusive ==
    [][\A s \in scope.sockets, r \in scope.rooms, n \in scope.names, d \in scope.decks :
         CreateRoom(s, r, n, d)
         => IF Exists(r)
            THEN /\ out' = <<Ev("error", s, "Room already exists")>>
                 /\ rooms' = rooms
                 /\ heap' = heap
            ELSE IF DirReadable(d)
            THEN /\ rooms'[r] # 0
                 /\ \A q \in RoomIds \ {r} : rooms'[q] = rooms[q]
                 /\ ~HasEvent(out', "error", s)
                 /\ HasEvent(out', "roomsList", "all")
            ELSE /\ out' = <<Ev("error", s, "Failed to load deck images")>>
                 /\ rooms' = rooms
                 /\ heap' = heap]_vars

\* a createRoom for the id of an existing room has just been refused
C8_Witness ==
    \E s \in scope.sockets, r \in scope.rooms :
        /\ Exists(r)
        /\ out = <<Ev("error", s, "Room already exists")>>

NamesDistinct(players) ==
    \A i, j \in 1..Len(players) : players[i].name = players[j].name => i = j

\* C9: joinRoom sends an error and leaves the players alone when the room
\* does not exist or the name belongs to a player of the room; otherwise it
\* appends exactly one player with 0 points; and the names of the players of
\* every room of the table are pairwise distinct.
C9_JoinRoomChecksName ==
    /\ [](\A r \in Keys(rooms) : NamesDistinct(Room(r).players))
    /\ [][\A s \in scope.sockets, r \in scope.rooms, n \in scope.names :
            JoinRoom(s, r, n)
            => IF ~Exists(r)
               THEN /\ out' = <<Ev("error", s, "Room does not exist")>>
                    /\ rooms' = rooms
                    /\ heap' = heap
               ELSE IF \E p \in SeqToSet(Room(r).players) : p.name = n
               THEN /\ out' = <<Ev("error", s, "Name already taken in this room")>>
                    /\ rooms' = rooms
                    /\ heap' = heap
               ELSE /\ rooms' = rooms
                    /\ heap'[rooms[r]].players
                          = Room(r).players \o <<[id |-> s, name |-> n, points |-> 0]>>
                    /\ ~HasEvent(out', "error", s)]_vars

\* a join under a name of the room has just been refused by a room of two
C9_Witness ==
    \E s \in scope.sockets, r \in scope.rooms :
        /\ Exists(r)
        /\ Len(Room(r).players) = 2
        /\ out = <<Ev("error", s, "Name already taken in this room")>>

\* C10: every room of the table has at least one player; a disconnect keeps
\* a room that still has players and deletes, in the same step, a room whose
\* last player it removed, and then the last roomsList lacks that id.
C10_RoomsHavePlayers ==
    /\ [](\A r \in Keys(rooms) : Len(Room(r).players) >= 1)
    /\ [][\A s \in scope.sockets :
            Disconnect(s)
            => \A r \in Keys(rooms) :
                 IF \E p \in SeqToSet(Room(r).players) : p.id # s
                 THEN /\ rooms'[r] = rooms[r]
                      /\ HasEvent(out', "updatePlayers", r)
                      /\ \A p \in SeqToSet(heap'[rooms'[r]].players) : p.id # s
                 ELSE /\ rooms'[r] = 0
                      /\ out'[Len(out')].type = "roomsList"
                      /\ out'[Len(out')].to = "all"
                      /\ r \notin SeqToSet(out'[Len(out')].data)]_vars

\* both clients have left and the disconnect of the last player has just
\* deleted the room and announced the empty room list
C10_Witness ==
    /\ \A s \in scope.sockets : conn[s] = "closed"
    /\ Keys(rooms) = {}
    /\ out = <<Ev("roomsList", "all", <<>>)>>

\* C11: a room leaves the table, or is sent gameOver, only by the disconnect
\* of its own last player or by the end of its own game: a drawCard of its
\* parent on its empty deck, or the callback of a choice that was made in
\* this very room.  No step of another room, or of an earlier room that had
\* the same id and is deleted, removes it or sends it gameOver.
C11_RoomRemovedByItsOwnSteps ==
    [][\A r \in scope.rooms :
         (Exists(r) /\ (rooms'[r] # rooms[r] \/ HasEvent(out', "gameOver", r)))
         => \/ \E s \in scope.sockets :
                 /\ Disconnect(s)
                 /\ PlayerIds(Room(r)) = {s}
                 /\ ~HasEvent(out', "gameOver", r)
            \/ \E s \in scope.sockets :
                 /\ DrawCard(s, r)
                 /\ Parent(Room(r)).id = s
                 /\ Len(Room(r).deck) = 0
            \/ \E i \in 1..Len(pending) :
                 /\ ChooseFinally(i)
                 /\ pending[i].roomId = r
                 /\ pending[i].obj = rooms[r]]_vars

\* C12: a submission puts the sender's connection id into a group only if
\* the sender is a player of the room at that moment: the submission of a
\* connection that is not in the players leaves onomatopoeiaList as it is,
\* and every id in the groups of a room was a player when it was added.
C12_OnlyPlayersSubmit ==
    [][\A s \in scope.sockets, r \in scope.rooms, t \in scope.texts :
         (SubmitOnomatopoeia(s, r, t) /\ Exists(r) /\ s \notin PlayerIds(Room(r)))
         => /\ rooms'[r] = rooms[r]
            /\ heap'[rooms[r]].onomatopoeiaList = Room(r).onomatopoeiaList
            /\ s \notin Submitters(heap'[rooms[r]])]_vars

\* C13: the ids of the players of a room are pairwise distinct, also after
\* one connection has joined the same room again under other names.
C13_PlayerIdsDistinct ==
    \A r \in Keys(rooms) :
        \A i, j \in 1..Len(Room(r).players) :
            Room(r).players[i].id = Room(r).players[j].id => i = j

\* C14: a drawCard of a connection that is not the current parent of the
\* addressed room changes nothing and emits nothing, in every reachable state
\* of the room (a room whose index names no player has no parent, so no
\* sender is its parent); a drawCard of the parent on a deck with cards
\* removes exactly the last card, makes it currentCard and broadcasts
\* cardDrawn with it.
C14_DrawCardOnlyByParent ==
    [][\A s \in scope.sockets, r \in scope.rooms :
         (DrawCard(s, r) /\ Exists(r))
         => IF Parent(Room(r)) = Undefined \/ Parent(Room(r)).id # s
            THEN /\ rooms' = rooms
                 /\ heap' = heap
                 /\ out' = <<>>
                 /\ crashed' = crashed
            ELSE Len(Room(r).deck) > 0
                 => LET deck == Room(r).deck
                    IN /\ rooms' = rooms
                       /\ heap'[rooms[r]]
                            = [Room(r) EXCEPT !.deck = SubSeq(deck, 1, Len(deck) - 1),
                                              !.currentCard = deck[Len(deck)]]
                       /\ out' = <<Ev("cardDrawn", r, deck[Len(deck)])>>]_vars

\* the gameOver events for room r among the events o
GameOvers(o, r) == {i \in 1..Len(o) : o[i].type = "gameOver" /\ o[i].to = r}

\* C15: when a game ends, the one gameOver sent to the room reports as
\* players the players then in the room and as winners exactly those of them
\* whose points are the maximum among them (every tied player, at least one
\* winner), and the room leaves the table in the same step.
C15_WinnersHaveMostPoints ==
    [][\A r \in scope.rooms :
         GameOvers(out', r) # {}
         => /\ Exists(r)
            /\ rooms'[r] = 0
            /\ Cardinality(GameOvers(out', r)) = 1
            /\ \A i \in GameOvers(out', r) :
                 LET players == Room(r).players
                     winners == out'[i].data.winners
                     best == {k \in 1..Len(players) :
                                \A j \in 1..Len(players) :
                                    players[j].points <= players[k].points}
                 IN /\ out'[i].data.players = players
                    /\ Len(winners) >= 1
                    /\ Len(winners) = Cardinality(best)
                    /\ SeqToSet(winners) = {players[k] : k \in best}]_vars

\* a game of two players has just ended with one winner, who has a point,
\* and the room is gone
C15_Witness ==
    \E r \in scope.rooms, i \in 1..Len(out) :
        /\ out[i].type = "gameOver"
        /\ out[i].to = r
        /\ ~Exists(r)
        /\ Len(out[i].data.players) = 2
        /\ Len(out[i].data.winners) = 1
        /\ out[i].data.winners[1].points = 1

\* the cards createRoom put into the deck of a room
CardsDealt(room) ==
    Len(Filter(DirListing(room.deckName),
               {f \in SeqToSet(DirListing(room.deckName)) : IsImage(f)}))

\* C16: the deck is consumed one card per turn: between two consecutive turn
\* advances of a room at most one card is popped and one cardDrawn is sent.
\* roundCount is 1 in the first turn and grows by one with every turn
\* advance, so the cards popped so far never outnumber the turns begun.
C16_OneCardPerTurn ==
    \A r \in Keys(rooms) :
        CardsDealt(Room(r)) - Len(Room(r).deck) <= Room(r).roundCount

\* C17: the list is delivered to the parent only in a round whose card has
\* been revealed by drawCard, and submissions are collected and counted only
\* after that card was drawn: while no card has been drawn in the room at all
\* (currentCard is still null, the lobby and the first turn before its draw)
\* the submission of a player who is not the parent is not added to the list
\* and no list is sent.
C17_SubmissionsAfterDraw ==
    [][\A s \in scope.sockets, r \in scope.rooms, t \in scope.texts :
         (/\ SubmitOnomatopoeia(s, r, t)
          /\ Exists(r)
          /\ Room(r).currentCard = "null"
          /\ s \in PlayerIds(Room(r))
          /\ Parent(Room(r)) # Undefined
          /\ Parent(Room(r)).id # s)
         => /\ heap'[rooms[r]].onomatopoeiaList = Room(r).onomatopoeiaList
            /\ \A q \in scope.sockets : ~HasEvent(out', "onomatopoeiaList", q)]_vars

\* C18: every submission adds 1 to stats[player][text] and to nothing else
\* of the stats.  On the list: a text that no group has appends exactly one
\* group, with the sender alone, at the end; a text that a group has and
\* whose group lacks the sender appends the sender to that group; a text
\* whose group holds the sender already leaves the list as it is, so a
\* repeated submission is idempotent on the grouping.
C18_SubmissionGrouping ==
    [][\A s \in scope.sockets, r \in scope.rooms, t \in scope.texts :
         (SubmitOnomatopoeia(s, r, t) /\ Exists(r))
         => LET old == Room(r).onomatopoeiaList
                new == heap'[rooms[r]].onomatopoeiaList
                has == {g \in 1..Len(old) : old[g].onomatopoeia = t}
            IN /\ rooms'[r] = rooms[r]
               /\ heap'[rooms[r]].stats[s][t] = Room(r).stats[s][t] + 1
               /\ \A p \in Sockets, u \in Texts :
                    <<p, u>> # <<s, t>>
                    => heap'[rooms[r]].stats[p][u] = Room(r).stats[p][u]
               /\ Cardinality(has) <= 1
               /\ IF has = {}
                  THEN new = old \o <<[onomatopoeia |-> t, playerIds |-> <<s>>]>>
                  ELSE \A g \in has :
                         IF \E k \in 1..Len(old[g].playerIds) : old[g].playerIds[k] = s
                         THEN new = old
                         ELSE /\ Len(new) = Len(old)
                              /\ new[g].onomatopoeia = t
                              /\ new[g].playerIds = old[g].playerIds \o <<s>>
                              /\ \A h \in 1..Len(old) : h # g => new[h] = old[h]]_vars

\* a player has just submitted the same text for the second time: the text
\* is counted twice and its group names the player once
C18_Witness ==
    \E s \in scope.sockets, r \in scope.rooms, t \in scope.texts :
        /\ Exists(r)
        /\ handled = 3
        /\ Room(r).stats[s][t] = 2
        /\ Room(r).onomatopoeiaList = <<[onomatopoeia |-> t, playerIds |-> <<s>>]>>

\* how often x occurs in the sequence s
Count(s, x) == Cardinality({i \in 1..Len(s) : s[i] = x})

\* C19: a createRoom that succeeds leaves a room whose deck is a permutation
\* of the image files of the deck folder (every file as often as the folder
\* lists it, nothing else, the same length), whatever the random choices of
\* the shuffle and also for a folder with one image or none; the creator is
\* its only player, with 0 points, the index is 0, roundCount is 1 and the
\* list of submissions is empty.
C19_CreateRoomShufflesDeck ==
    [][\A s \in scope.sockets, r \in scope.rooms, n \in scope.names, d \in scope.decks :
         (CreateRoom(s, r, n, d) /\ ~Exists(r) /\ DirReadable(d))
         => /\ rooms'[r] # 0
            /\ LET room == heap'[rooms'[r]]
                   files == DirListing(d)
                   images == {i \in 1..Len(files) : IsImage(files[i])}
               IN /\ Len(room.deck) = Cardinality(images)
                  /\ \A c \in SeqToSet(room.deck) \cup SeqToSet(files) :
                       Count(room.deck, c) = IF IsImage(c) THEN Count(files, c) ELSE 0
                  /\ room.players = <<[id |-> s, name |-> n, points |-> 0]>>
                  /\ room.currentTurnPlayerIndex = 0
                  /\ room.roundCount = 1
                  /\ room.onomatopoeiaList = <<>>]_vars

\* a room has just been created with the three cards of its folder in an
\* order the folder does not list them in
C19_Witness ==
    \E s \in scope.sockets, r \in scope.rooms :
        /\ Exists(r)
        /\ handled = 1
        /\ HasEvent(out, "updatePlayers", r)
        /\ Room(r).deck = <<"c3.gif", "c1.png", "c2.JPG">>
        /\ Room(r).players[1].id = s

\* C20: a disconnect changes, in the rooms it leaves in the table, nothing
\* but the sequence of players, from which it removes the players of the
\* connection: deck, currentCard, roundCount, the list, the stats and the
\* remaining players with their points stay as they are; and when the
\* connection is not the current parent, players[currentTurnPlayerIndex] is
\* the same player before and after.
C20_DisconnectKeepsParent ==
    [][\A s \in scope.sockets :
         Disconnect(s)
         => \A r \in Keys(rooms') :
              LET old == Room(r)
                  new == heap'[rooms'[r]]
              IN /\ rooms'[r] = rooms[r]
                 /\ new.deck = old.deck
                 /\ new.currentCard = old.currentCard
                 /\ new.roundCount = old.roundCount
                 /\ new.onomatopoeiaList = old.onomatopoeiaList
                 /\ new.stats = old.stats
                 /\ new.players
                      = Filter(old.players, {p \in SeqToSet(old.players) : p.id # s})
                 /\ (Parent(old) # Undefined /\ Parent(old).id # s)
                    => Parent(new) = Parent(old)]_vars
====
